---- MODULE Spec2Model ----
(***************************************************************************)
(* A model of the Radius demo chat application:                            *)
(*   - the Chat component (src/components/Chat.tsx, lines 36-120): the      *)
(*     message list, the composer input, the pending flag and the requests *)
(*     to /api/chat that are in flight;                                     *)
(*   - the route handler POST /api/chat (src/app/api/chat/route.ts);        *)
(*   - the agent library (src/components/Chat.tsx, lines 342-651):          *)
(*     classifyIntent, the response generators and runAgent.                *)
(*                                                                         *)
(* Text is a sequence of one-character strings, so that the regular        *)
(* expressions, trim, split and the template literals of the source are    *)
(* computed character by character.                                        *)
(***************************************************************************)
EXTENDS Integers, Sequences, FiniteSets, TLC

VARIABLES
    messages,      \* Chat: useState messages (Chat.tsx:37)
    input,         \* Chat: useState input (Chat.tsx:50)
    pending,       \* Chat: useState pending (Chat.tsx:51)
    inflight,      \* the handleSubmit invocations suspended at `await fetch`
    event,         \* the last handler the component ran
    httpRequest,   \* route harness: the request given to POST
    httpResponse,  \* route harness: what POST answered
    text,          \* classifier harness: the argument of classifyIntent
    intent,        \* classifier harness: its result
    history,       \* summary harness: the argument of summarizeConversation
    summary,       \* summary harness: its result
    taskText,      \* prioritise harness: the argument of prioritiseTasks
    ranking,       \* prioritise harness: its result
    lastIndex,     \* server: lastIndex of the regular expressions of KNOWLEDGE_BASE
    calls,         \* server: the invocations of POST that have not answered yet
    agentLog,      \* server: the inputs and replies of the answered invocations
    mathText,      \* calculator harness: the argument of calculateExpression
    mathResult     \* calculator harness: its result

uiVars       == <<messages, input, pending, inflight, event>>
routeVars    == <<httpRequest, httpResponse>>
classifyVars == <<text, intent>>
summaryVars  == <<history, summary>>
priorityVars == <<taskText, ranking>>
serverVars   == <<lastIndex, calls, agentLog>>
calcVars     == <<mathText, mathResult>>
vars == <<messages, input, pending, inflight, event, httpRequest, httpResponse,
          text, intent, history, summary, taskText, ranking,
          lastIndex, calls, agentLog, mathText, mathResult>>

\* The value of a harness variable that holds nothing (yet).
None == "none"

(***************************************************************************)
(* Bounds of the model.                                                    *)
(***************************************************************************)
\* Texts given to classifyIntent are made of at most this many tokens.
MaxTokens == 3

\* The Chat component accepts at most this many user messages.
MaxTurns == 2

\* Histories given to summarizeConversation hold at most this many messages.
MaxHistory == 7

\* Arrays given to POST as the messages of a request hold at most this many entries.
MaxEntries == 3

\* Texts given to prioritiseTasks list at most this many entries.
MaxTasks == 3

\* The server holds at most this many invocations of POST at a time.
MaxCalls == 2

\* Conversations given to runAgent for its reply hold at most this many messages.
MaxConversation == 2

\* Texts given to calculateExpression are made of at most this many tokens.
MaxMathTokens == 3

(***************************************************************************)
(* Characters and strings.                                                 *)
(***************************************************************************)
Digits == {"0", "1", "2", "3", "4", "5", "6", "7", "8", "9"}

\* What \s and String.prototype.trim treat as white space (the ASCII part).
WhiteSpace == {" ", "\n", "\t", "\r", "\f"}

\* What the regular expression dot does not match.
LineTerminators == {"\n", "\r"}

Uppers == <<"A","B","C","D","E","F","G","H","I","J","K","L","M","N","O","P","Q","R","S","T","U","V","W","X","Y","Z">>
Lowers == <<"a","b","c","d","e","f","g","h","i","j","k","l","m","n","o","p","q","r","s","t","u","v","w","x","y","z">>
UpperSet == {Uppers[i] : i \in 1..Len(Uppers)}

\* The case folding of the regular expressions' i flag.
ToLower(c) ==
    IF c \in UpperSet
    THEN Lowers[CHOOSE i \in 1..Len(Uppers) : Uppers[i] = c]
    ELSE c

\* String.prototype.trimStart and trimEnd: s from its first, and up to its
\* last, character that is no white space.
TrimStart(s) ==
    IF \A i \in 1..Len(s) : s[i] \in WhiteSpace THEN << >>
    ELSE SubSeq(s,
            CHOOSE i \in 1..Len(s) :
                s[i] \notin WhiteSpace /\ \A j \in 1..(i - 1) : s[j] \in WhiteSpace,
            Len(s))

TrimEnd(s) ==
    IF \A i \in 1..Len(s) : s[i] \in WhiteSpace THEN << >>
    ELSE SubSeq(s, 1,
            CHOOSE i \in 1..Len(s) :
                s[i] \notin WhiteSpace /\ \A j \in (i + 1)..Len(s) : s[j] \in WhiteSpace)

\* String.prototype.trim
Trim(s) == TrimEnd(TrimStart(s))

\* The lower-case word `word` occurs in s at position i, ignoring case.
MatchAt(s, i, word) ==
    /\ i + Len(word) - 1 <= Len(s)
    /\ \A k \in 1..Len(word) : ToLower(s[i + k - 1]) = word[k]

\* /word/i.test(s)
Contains(s, word) == \E i \in 1..Len(s) : MatchAt(s, i, word)

\* /w1|w2|.../i.test(s)
ContainsAny(s, words) == \E w \in words : Contains(s, w)

\* The concatenation of a sequence of strings.
RECURSIVE Flatten(_)
Flatten(ss) == IF ss = << >> THEN << >> ELSE Head(ss) \o Flatten(Tail(ss))

\* The strings made of at most n of the given tokens.
TextsOf(tokens, n) ==
    {Flatten(ts) : ts \in UNION {[1..k -> tokens] : k \in 0..n}}

(***************************************************************************)
(* classifyIntent (Chat.tsx:489-498).                                      *)
(***************************************************************************)
Intents == {"math", "plan", "brainstorm", "summarize", "prioritize", "insight"}

\* The class [0-9+\-*/%^().\s]
MathChars == Digits \cup {"+", "-", "*", "/", "%", "^", "(", ")", "."} \cup WhiteSpace

\* /[0-9][0-9+\-*/%^().\s]+[0-9]/.test(s)
MathPattern(s) ==
    \E i \in 1..Len(s) : \E j \in (i + 2)..Len(s) :
        /\ s[i] \in Digits
        /\ s[j] \in Digits
        /\ \A k \in (i + 1)..(j - 1) : s[k] \in MathChars

\* /plan|schedule|roadmap|steps|strategy/i.test(s)
PlanPattern(s) ==
    ContainsAny(s, {<<"p","l","a","n">>, <<"s","c","h","e","d","u","l","e">>, <<"r","o","a","d","m","a","p">>, <<"s","t","e","p","s">>, <<"s","t","r","a","t","e","g","y">>})

\* /idea|ideas|brainstorm|creative|names?/i.test(s)
BrainstormPattern(s) ==
    ContainsAny(s, {<<"i","d","e","a">>, <<"i","d","e","a","s">>, <<"b","r","a","i","n","s","t","o","r","m">>, <<"c","r","e","a","t","i","v","e">>, <<"n","a","m","e">>, <<"n","a","m","e","s">>})

\* /summarise|summarize|recap|tl;dr/i.test(s)
SummarizePattern(s) ==
    ContainsAny(s, {<<"s","u","m","m","a","r","i","s","e">>, <<"s","u","m","m","a","r","i","z","e">>, <<"r","e","c","a","p">>, <<"t","l",";","d","r">>})

\* /order.*tasks/i.test(s): the dot matches no line terminator.
OrderTasksPattern(s) ==
    \E i \in 1..Len(s) : \E j \in (i + 5)..Len(s) :
        /\ MatchAt(s, i, <<"o","r","d","e","r">>)
        /\ MatchAt(s, j, <<"t","a","s","k","s">>)
        /\ \A k \in (i + 5)..(j - 1) : s[k] \notin LineTerminators

\* /prioriti[sz]e|ranking|order.*tasks|what to do first/i.test(s)
PrioritizePattern(s) ==
    \/ ContainsAny(s, {<<"p","r","i","o","r","i","t","i","s","e">>, <<"p","r","i","o","r","i","t","i","z","e">>, <<"r","a","n","k","i","n","g">>, <<"w","h","a","t"," ","t","o"," ","d","o"," ","f","i","r","s","t">>})
    \/ OrderTasksPattern(s)

\* classifyIntent with the plan test moved in front of the math test.
classifyIntentPlanFirst(s) ==
    IF PlanPattern(s) THEN "plan"
    ELSE IF MathPattern(s) THEN "math"
    ELSE IF BrainstormPattern(s) THEN "brainstorm"
    ELSE IF SummarizePattern(s) THEN "summarize"
    ELSE IF PrioritizePattern(s) THEN "prioritize"
    ELSE "insight"

classifyIntent(s) ==
    IF MathPattern(s) THEN "math"
    ELSE IF PlanPattern(s) THEN "plan"
    ELSE IF BrainstormPattern(s) THEN "brainstorm"
    ELSE IF SummarizePattern(s) THEN "summarize"
    ELSE IF PrioritizePattern(s) THEN "prioritize"
    ELSE "insight"

(***************************************************************************)
(* Messages of the agent library (Chat.tsx:344-349): a role and a content. *)
(***************************************************************************)
AgentRoles == {"system", "user", "assistant"}

Msg(role, content) == [role |-> role, content |-> content]

\* Array.prototype.filter
\* Array.prototype.slice(-n): the last n elements, all of them when fewer.
SliceLast(seq, n) ==
    IF Len(seq) <= n THEN seq ELSE SubSeq(seq, Len(seq) - n + 1, Len(seq))

\* Array.prototype.join
RECURSIVE Join(_, _)
Join(strs, sep) ==
    IF strs = << >> THEN << >>
    ELSE IF Len(strs) = 1 THEN Head(strs)
    ELSE Head(strs) \o sep \o Join(Tail(strs), sep)

\* s.replace(/\s+/g, " "): every run of white space becomes one space (the
\* first character of the run is replaced, the others are dropped).
Dropped == "[dropped]"

NotDropped(c) == c # Dropped

CollapseWhiteSpace(s) ==
    SelectSeq([i \in 1..Len(s) |->
                IF s[i] \notin WhiteSpace THEN s[i]
                ELSE IF i > 1 /\ s[i - 1] \in WhiteSpace THEN Dropped
                ELSE " "],
           NotDropped)

\* Number.prototype.toString of a natural number.
DigitChars == <<"0","1","2","3","4","5","6","7","8","9">>

RECURSIVE NatToString(_)
NatToString(n) ==
    IF n < 10 THEN <<DigitChars[n + 1]>>
    ELSE NatToString(n \div 10) \o <<DigitChars[(n % 10) + 1]>>

(***************************************************************************)
(* summarizeConversation (Chat.tsx:446-456).                               *)
(***************************************************************************)
\* The number of messages summarizeConversation slices off the history.
SummaryWindow == 6

NothingToSummarise ==
    <<"W","e","'","v","e"," ","j","u","s","t"," ","s","t","a","r","t","e","d"," ","c","h","a","t","t","i","n","g",","," ","s","o"," ","t","h","e","r","e","'","s"," ","n","o","t","h","i","n","g"," ","t","o"," ","s","u","m","m","a","r","i","s","e"," ","y","e","t",".">>

SummaryHeader == <<"H","e","r","e","'","s"," ","w","h","a","t"," ","w","e"," ","c","o","v","e","r","e","d"," ","r","e","c","e","n","t","l","y",":">>

NotSystem(item) == item.role # "system"

\* history.slice(-6).filter((item) => item.role !== "system")
lastFew(h) == SelectSeq(SliceLast(h, SummaryWindow), NotSystem)

\* `- ${speaker}: ${item.content.replace(/\s+/g, " ").trim()}`
bulletPoint(item) ==
    <<"-"," ">> \o (IF item.role = "assistant" THEN <<"R","a","d","i","u","s">> ELSE <<"Y","o","u">>)
         \o <<":"," ">> \o Trim(CollapseWhiteSpace(item.content))

\* ["Here's what we covered recently:", ...bulletPoints].join("\n")
renderSummary(items) ==
    Join(<<SummaryHeader>> \o [i \in 1..Len(items) |-> bulletPoint(items[i])], <<"\n">>)

summarizeConversation(h) ==
    IF lastFew(h) = << >> THEN NothingToSummarise ELSE renderSummary(lastFew(h))

(***************************************************************************)
(* prioritiseTasks (Chat.tsx:458-480).                                     *)
(***************************************************************************)
NoTasksText ==
    <<"P","l","e","a","s","e"," ","p","r","o","v","i","d","e"," ","a"," ","l","i","s","t"," ","o","f"," ","t","a","s","k","s"," ","s","e","p","a","r","a","t","e","d"," ","b","y"," ","c","o","m","m","a","s"," ","o","r"," ","n","e","w"," ","l","i","n","e","s"," ","s","o"," ","I"," ","c","a","n"," ","r","a","n","k"," ","t","h","e","m",".">>

\* The r-th smallest element of a set of numbers.
Nth(S, r) == CHOOSE p \in S : Cardinality({q \in S : q < p}) = r - 1

\* String.prototype.split on a set of one-character separators: the pieces
\* between the start, the separators and the end.
Split(s, seps) ==
    LET cuts == {0, Len(s) + 1} \cup {i \in 1..Len(s) : s[i] \in seps}
    IN  [r \in 1..(Cardinality(cuts) - 1) |->
            SubSeq(s, Nth(cuts, r) + 1, Nth(cuts, r + 1) - 1)]

\* An entry must be longer than this to be kept as a task.
MinTaskLength == 4

LongEnough(line) == Len(line) > MinTaskLength

\* input.split(/\n|,|;/).map((line) => line.trim()).filter((line) => line.length > 4)
taskLines(s) ==
    LET parts == Split(s, {"\n", ",", ";"})
    IN  SelectSeq([i \in 1..Len(parts) |-> Trim(parts[i])], LongEnough)

\* /today|urgent|now|soon|asap/i.test(task) ? 3 : 1
urgencyScore(task) ==
    IF ContainsAny(task, {<<"t","o","d","a","y">>, <<"u","r","g","e","n","t">>, <<"n","o","w">>, <<"s","o","o","n">>, <<"a","s","a","p">>}) THEN 3 ELSE 1

\* launch|client|revenue|milestone|deadline: 3; review|prep|draft: 2; else 1
impactScore(task) ==
    IF ContainsAny(task, {<<"l","a","u","n","c","h">>, <<"c","l","i","e","n","t">>, <<"r","e","v","e","n","u","e">>, <<"m","i","l","e","s","t","o","n","e">>, <<"d","e","a","d","l","i","n","e">>})
    THEN 3
    ELSE IF ContainsAny(task, {<<"r","e","v","i","e","w">>, <<"p","r","e","p">>, <<"d","r","a","f","t">>}) THEN 2
    ELSE 1

\* lines.map((task, index) => ({ task, score: urgencyScore * 2 + impactScore, index }))
scoreTasks(lines) ==
    [i \in 1..Len(lines) |->
        [task  |-> lines[i],
         score |-> urgencyScore(lines[i]) * 2 + impactScore(lines[i]),
         index |-> i - 1]]

\* The comparator with the scores taken in ascending order.
compareRankedAscending(a, b) ==
    IF a.score - b.score # 0 THEN a.score - b.score ELSE a.index - b.index

\* (a, b) => b.score - a.score || a.index - b.index
compareRanked(a, b) ==
    IF b.score - a.score # 0 THEN b.score - a.score ELSE a.index - b.index

\* Array.prototype.sort, as a stable insertion sort under the comparator.
RECURSIVE InsertSorted(_, _)
InsertSorted(sorted, item) ==
    IF sorted = << >> THEN <<item>>
    ELSE IF compareRanked(item, Head(sorted)) < 0
    THEN <<item>> \o sorted
    ELSE <<Head(sorted)>> \o InsertSorted(Tail(sorted), item)

RECURSIVE SortRanked(_)
SortRanked(items) ==
    IF items = << >> THEN << >>
    ELSE InsertSorted(SortRanked(SubSeq(items, 1, Len(items) - 1)), items[Len(items)])

\* `${position + 1}. ${item.task} [em-dash] priority score ${item.score}`, joined by "\n"
renderRanking(ranked) ==
    Join([p \in 1..Len(ranked) |->
            NatToString(p) \o <<"."," ">> \o ranked[p].task
                \o <<" ","[em-dash]"," ","p","r","i","o","r","i","t","y"," ","s","c","o","r","e"," ">> \o NatToString(ranked[p].score)],
         <<"\n">>)

prioritiseTasks(s) ==
    IF Len(taskLines(s)) = 0 THEN NoTasksText
    ELSE renderRanking(SortRanked(scoreTasks(taskLines(s))))

(***************************************************************************)
(* parser.evaluate of the expr-eval library (Chat.tsx:371, 406), for the   *)
(* expressions cleanExpression lets through that are written with digits,  *)
(* + - * % ( ) and white space: integer arithmetic.  A value is a number   *)
(* or NaN; parsing or evaluating may throw.  The texts of this model hold  *)
(* no "/", "^" or "." inside an expression; TokenOf is not defined on them.*)
(***************************************************************************)
Num(n) == [nan |-> FALSE, n |-> n]
NaN == [nan |-> TRUE, n |-> 0]

Threw == [ok |-> FALSE, val |-> NaN, rest |-> << >>]
Parsed(val, rest) == [ok |-> TRUE, val |-> val, rest |-> rest]

NumToken(n) == [t |-> "number", op |-> "", n |-> n]
OpToken(c) == [t |-> "op", op |-> c, n |-> 0]

DigitValue(c) == CHOOSE d \in 0..9 : DigitChars[d + 1] = c

\* parseFloat of the digits s[i..j].
RECURSIVE DigitsValue(_, _, _)
DigitsValue(s, i, j) ==
    IF j < i THEN 0 ELSE DigitsValue(s, i, j - 1) * 10 + DigitValue(s[j])

\* The token that starts at position i: a number made of the digits from i on,
\* or a one-character operator or parenthesis.
TokenAt(s, i) ==
    CASE s[i] \in Digits ->
            NumToken(DigitsValue(s, i,
                CHOOSE j \in i..Len(s) :
                    /\ \A k \in i..j : s[k] \in Digits
                    /\ j = Len(s) \/ s[j + 1] \notin Digits))
      [] s[i] \in {"+", "-", "*", "%", "(", ")"} -> OpToken(s[i])

\* TokenStream: the tokens of s in order; white space between them is skipped.
Tokenize(s) ==
    LET starts == {i \in 1..Len(s) :
                        /\ s[i] \notin WhiteSpace
                        /\ s[i] \in Digits => (i = 1 \/ s[i - 1] \notin Digits)}
    IN  [r \in 1..Cardinality(starts) |-> TokenAt(s, Nth(starts, r))]

IsOp(ts, ops) == ts # << >> /\ Head(ts).t = "op" /\ Head(ts).op \in ops

\* The remainder of JavaScript: the sign of the dividend, NaN for a zero divisor.
JsRemainder(a, b) ==
    IF b = 0 THEN NaN
    ELSE LET abs(x) == IF x < 0 THEN -x ELSE x
             r == abs(a) % abs(b)
         IN  Num(IF a < 0 THEN -r ELSE r)

Apply(op, x, y) ==
    IF x.nan \/ y.nan THEN NaN
    ELSE CASE op = "+" -> Num(x.n + y.n)
           [] op = "-" -> Num(x.n - y.n)
           [] op = "*" -> Num(x.n * y.n)
           [] op = "%" -> JsRemainder(x.n, y.n)

Negate(x) == IF x.nan THEN NaN ELSE Num(-x.n)

RECURSIVE ParseExpression(_), ParseAddSub(_), ParseTerm(_), ParseTermRest(_), ParseFactor(_), ParseAtom(_)

\* parseAtom, and parseFunctionCall above it: a "(" right after an atom makes
\* it a call of a number, which throws when evaluated.
ParseAtom(ts) ==
    LET atom ==
            IF ts = << >> THEN Threw
            ELSE IF Head(ts).t = "number" THEN Parsed(Num(Head(ts).n), Tail(ts))
            ELSE IF Head(ts).op = "(" THEN
                LET inner == ParseExpression(Tail(ts))
                IN  IF inner.ok /\ IsOp(inner.rest, {")"})
                    THEN Parsed(inner.val, Tail(inner.rest))
                    ELSE Threw
            ELSE Threw
    IN  IF atom.ok /\ IsOp(atom.rest, {"("}) THEN Threw ELSE atom

\* parseFactor: the prefix operators - and +.
ParseFactor(ts) ==
    IF IsOp(ts, {"-", "+"}) THEN
        LET operand == ParseFactor(Tail(ts))
        IN  IF ~operand.ok THEN Threw
            ELSE IF Head(ts).op = "-" THEN Parsed(Negate(operand.val), operand.rest)
            ELSE operand
    ELSE ParseAtom(ts)

\* parseTerm: factor (("*" | "%") factor)*, left to right.
ParseTermRest(left) ==
    IF left.ok /\ IsOp(left.rest, {"*", "%"}) THEN
        LET right == ParseFactor(Tail(left.rest))
        IN  IF ~right.ok THEN Threw
            ELSE ParseTermRest(
                    Parsed(Apply(Head(left.rest).op, left.val, right.val), right.rest))
    ELSE left

ParseTerm(ts) == ParseTermRest(ParseFactor(ts))

\* parseAddSub: term (("+" | "-") term)*, left to right.
ParseAddSub(left) ==
    IF left.ok /\ IsOp(left.rest, {"+", "-"}) THEN
        LET right == ParseTerm(Tail(left.rest))
        IN  IF ~right.ok THEN Threw
            ELSE ParseAddSub(
                    Parsed(Apply(Head(left.rest).op, left.val, right.val), right.rest))
    ELSE left

ParseExpression(ts) == ParseAddSub(ParseTerm(ts))

\* parser.evaluate(expression): the whole input must be one expression.
ParserEvaluate(expr) ==
    LET r == ParseExpression(Tokenize(expr))
    IN  IF r.ok /\ r.rest = << >> THEN r ELSE Threw

(***************************************************************************)
(* cleanExpression and calculateExpression (Chat.tsx:391-418).             *)
(***************************************************************************)
\* The class [0-9+\-*/%^().,\s] the first replace keeps.
ExpressionChars == MathChars \cup {","}

IsExpressionChar(c) == c \in ExpressionChars
IsNotComma(c) == c # ","
IsDigit(c) == c \in Digits

\* null
NoExpression == <<"[null]">>

cleanExpression(s) ==
    LET candidate == SelectSeq(SelectSeq(s, IsExpressionChar), IsNotComma)
    IN  IF Trim(candidate) = << >> THEN NoExpression
        ELSE IF SelectSeq(candidate, IsDigit) = << >> THEN NoExpression
        ELSE candidate

\* The digits of n in groups of three: toLocaleString in the en-US locale.
RECURSIVE Grouped(_)
Grouped(n) ==
    IF n < 1000 THEN NatToString(n)
    ELSE LET low == n % 1000
         IN  Grouped(n \div 1000) \o <<",">>
                \o (IF low < 10 THEN <<"0","0">> ELSE IF low < 100 THEN <<"0">> ELSE << >>)
                \o NatToString(low)

\* The threshold from which the result is written with toLocaleString.
GroupingThreshold == 1000

\* Math.abs(result) >= 1_000 ? result.toLocaleString(...) : Number(result.toPrecision(8)).toString()
formatResult(n) ==
    LET abs == IF n < 0 THEN -n ELSE n
    IN  (IF n < 0 THEN <<"-">> ELSE << >>) \o
        (IF abs >= GroupingThreshold THEN Grouped(abs) ELSE NatToString(abs))

NoExpressionText ==
    <<"I"," ","c","o","u","l","d"," ","n","o","t"," ","d","e","t","e","c","t"," ","a"," ","s","o","l","v","a","b","l","e"," ","e","x","p","r","e","s","s","i","o","n","."," ","T","r","y"," ","s","o","m","e","t","h","i","n","g"," ","l","i","k","e"," ","[backtick]","3"," ","*"," ","(","1","2"," ","+"," ","4",")","[backtick]",".">>
NonNumericText ==
    <<"T","h","a","t"," ","e","x","p","r","e","s","s","i","o","n"," ","r","e","s","o","l","v","e","s"," ","t","o"," ","a"," ","n","o","n","-","n","u","m","e","r","i","c"," ","r","e","s","u","l","t",","," ","w","h","i","c","h"," ","I"," ","d","o"," ","n","o","t"," ","s","u","p","p","o","r","t"," ","y","e","t",".">>
MalformedText ==
    <<"T","h","a","t"," ","e","x","p","r","e","s","s","i","o","n"," ","s","e","e","m","s"," ","m","a","l","f","o","r","m","e","d","."," ","T","r","y"," ","u","s","i","n","g"," ","o","n","l","y"," ","n","u","m","b","e","r","s"," ","a","n","d"," ","s","t","a","n","d","a","r","d"," ","o","p","e","r","a","t","o","r","s",".">>

\* calculateExpression without the test Number.isFinite(result).
calculateExpressionUnchecked(s) ==
    LET expression == cleanExpression(s)
    IN  IF expression = NoExpression THEN NoExpressionText
        ELSE LET result == ParserEvaluate(expression)
             IN  IF ~result.ok THEN MalformedText
                 ELSE <<"T","h","e"," ","e","x","p","r","e","s","s","i","o","n"," ">> \o Trim(expression) \o <<" ","e","v","a","l","u","a","t","e","s"," ","t","o"," ","*","*">>
                        \o (IF result.val.nan THEN <<"N","a","N">> ELSE formatResult(result.val.n))
                        \o <<"*","*",".">>

calculateExpression(s) ==
    LET expression == cleanExpression(s)
    IN  IF expression = NoExpression THEN NoExpressionText
        ELSE LET result == ParserEvaluate(expression)
             IN  IF ~result.ok THEN MalformedText
                 ELSE IF result.val.nan THEN NonNumericText
                 ELSE <<"T","h","e"," ","e","x","p","r","e","s","s","i","o","n"," ">> \o Trim(expression) \o <<" ","e","v","a","l","u","a","t","e","s"," ","t","o"," ","*","*">>
                        \o formatResult(result.val.n) \o <<"*","*",".">>

(***************************************************************************)
(* buildPlan, brainstormIdeas, matchKnowledge (Chat.tsx:373-389, 420-444,  *)
(* 482-487).                                                               *)
(***************************************************************************)
Numbered(lines) ==
    Join([i \in 1..Len(lines) |-> NatToString(i) \o <<"."," ">> \o lines[i]], <<"\n">>)

buildPlan(goal) ==
    Numbered(<<
        <<"C","l","a","r","i","f","y"," ","t","h","e"," ","t","r","u","e"," ","o","b","j","e","c","t","i","v","e"," ","a","n","d"," ","d","e","f","i","n","e"," ","a"," ","m","e","a","s","u","r","a","b","l","e"," ","f","i","n","i","s","h"," ","l","i","n","e"," ","f","o","r"," ","\"">>
            \o Trim(goal) \o <<"\"",".">>,
        <<"L","i","s","t"," ","t","h","e"," ","c","o","n","s","t","r","a","i","n","t","s"," ","(","t","i","m","e",","," ","b","u","d","g","e","t",","," ","c","o","l","l","a","b","o","r","a","t","o","r","s",")"," ","s","o"," ","w","e"," ","c","a","n"," ","w","o","r","k"," ","w","i","t","h","i","n"," ","t","h","e","m",".">>,
        <<"B","r","e","a","k"," ","t","h","e"," ","w","o","r","k"," ","i","n","t","o"," ","3","-","5"," ","a","t","o","m","i","c"," ","a","c","t","i","o","n","s"," ","t","h","a","t"," ","c","a","n"," ","e","a","c","h"," ","b","e"," ","c","o","m","p","l","e","t","e","d"," ","i","n"," ","o","n","e"," ","s","i","t","t","i","n","g",".">>,
        <<"S","e","q","u","e","n","c","e"," ","t","h","e"," ","a","c","t","i","o","n","s"," ","b","y"," ","i","m","p","a","c","t"," ","a","n","d"," ","d","e","p","e","n","d","e","n","c","y",","," ","t","h","e","n"," ","b","l","o","c","k"," ","t","i","m","e"," ","f","o","r"," ","t","h","e"," ","f","i","r","s","t"," ","s","t","e","p",".">>,
        <<"C","r","e","a","t","e"," ","a"," ","f","e","e","d","b","a","c","k"," ","h","o","o","k"," ","[em-dash]"," ","w","h","a","t"," ","e","v","i","d","e","n","c","e"," ","w","i","l","l"," ","t","e","l","l"," ","u","s"," ","w","e"," ","c","a","n"," ","a","d","j","u","s","t"," ","o","r"," ","s","t","o","p","?">>
    >>)

BrainstormAngles == <<
    <<"U","n","e","x","p","e","c","t","e","d"," ","p","a","r","t","n","e","r","s","h","i","p","s"," ","o","r"," ","a","u","d","i","e","n","c","e","s">>,
    <<"M","o","m","e","n","t","s"," ","i","n"," ","t","h","e"," ","c","u","s","t","o","m","e","r"," ","j","o","u","r","n","e","y"," ","y","o","u"," ","c","a","n"," ","d","e","l","i","g","h","t">>,
    <<"S","m","a","l","l"," ","e","x","p","e","r","i","m","e","n","t","s"," ","y","o","u"," ","c","a","n"," ","s","h","i","p"," ","t","h","i","s"," ","w","e","e","k">>,
    <<"S","i","g","n","a","l","s"," ","t","h","a","t"," ","p","r","o","v","e"," ","t","h","e"," ","i","d","e","a"," ","i","s"," ","w","o","r","k","i","n","g">> >>

brainstormIdeas(topic) ==
    Numbered([i \in 1..Len(BrainstormAngles) |->
        BrainstormAngles[i] \o <<" ","[em-dash]"," ","s","p","e","c","i","f","i","c","a","l","l","y"," ","f","o","r"," ","\"">> \o Trim(topic)
            \o <<"\"","."," ","T","h","i","n","k"," ","a","b","o","u","t"," ","w","h","a","t"," ","w","o","u","l","d"," ","f","e","e","l"," ","r","e","f","r","e","s","h","i","n","g"," ","c","o","m","p","a","r","e","d"," ","t","o"," ","t","h","e"," ","s","t","a","t","u","s"," ","q","u","o",".">>])

KNOWLEDGE_BASE == <<
    [triggers |-> {<<"p","r","o","d","u","c","t","i","v","i","t","y">>, <<"f","o","c","u","s">>, <<"d","e","e","p"," ","w","o","r","k">>},
     response |-> <<"-"," ","A","l","t","e","r","n","a","t","e"," ","5","0"," ","m","i","n","u","t","e","s"," ","o","f"," ","f","o","c","u","s"," ","w","i","t","h"," ","1","0","-","m","i","n","u","t","e"," ","r","e","s","e","t","s",".","\n","-"," ","D","e","c","i","d","e"," ","t","h","e"," ","s","i","n","g","l","e"," ","c","r","i","t","i","c","a","l"," ","o","u","t","p","u","t"," ","b","e","f","o","r","e"," ","y","o","u"," ","s","t","a","r","t",".","\n","-"," ","P","a","r","k"," ","d","i","s","t","r","a","c","t","i","n","g"," ","i","d","e","a","s"," ","i","n"," ","a","n"," ","i","n","b","o","x"," ","s","o"," ","y","o","u"," ","c","a","n"," ","r","e","t","u","r","n"," ","w","i","t","h","o","u","t"," ","l","o","s","i","n","g"," ","f","l","o","w",".">>],
    [triggers |-> {<<"m","a","r","k","e","t","i","n","g">>, <<"c","a","m","p","a","i","g","n">>, <<"l","a","u","n","c","h">>},
     response |-> <<"-"," ","A","n","c","h","o","r"," ","o","n"," ","o","n","e"," ","m","e","m","o","r","a","b","l","e"," ","s","t","o","r","y"," ","p","e","r"," ","a","u","d","i","e","n","c","e"," ","s","e","g","m","e","n","t",".","\n","-"," ","R","e","p","u","r","p","o","s","e"," ","h","i","g","h","-","p","e","r","f","o","r","m","i","n","g"," ","a","s","s","e","t","s"," ","i","n","t","o"," ","q","u","i","c","k"," ","e","x","p","e","r","i","m","e","n","t","s"," ","o","n"," ","n","e","w"," ","c","h","a","n","n","e","l","s",".","\n","-"," ","B","l","e","n","d"," ","a"," ","f","a","s","t"," ","f","e","e","d","b","a","c","k"," ","m","e","t","r","i","c"," ","(","C","T","R",")"," ","w","i","t","h"," ","a"," ","s","l","o","w","e","r"," ","h","e","a","l","t","h"," ","m","e","t","r","i","c"," ","(","s","h","a","r","e"," ","o","f"," ","c","o","n","v","e","r","s","a","t","i","o","n",")",".">>],
    [triggers |-> {<<"l","e","a","r","n","i","n","g">>, <<"s","t","u","d","y">>, <<"e","x","a","m">>},
     response |-> <<"-"," ","B","e","g","i","n"," ","w","i","t","h"," ","a"," ","s","p","a","c","e","d"," ","r","e","p","e","t","i","t","i","o","n"," ","s","w","e","e","p"," ","t","o"," ","s","u","r","f","a","c","e"," ","w","e","a","k"," ","s","p","o","t","s",".","\n","-"," ","C","o","n","v","e","r","t"," ","t","h","e","o","r","i","e","s"," ","i","n","t","o"," ","a","p","p","l","i","e","d"," ","m","i","c","r","o","-","p","r","o","j","e","c","t","s"," ","w","i","t","h","i","n"," ","2","4"," ","h","o","u","r","s",".","\n","-"," ","T","e","a","c","h"," ","t","h","e"," ","c","o","n","c","e","p","t"," ","b","a","c","k"," ","t","o"," ","s","o","m","e","o","n","e"," ","(","o","r"," ","y","o","u","r"," ","n","o","t","e","s",")"," ","i","n"," ","p","l","a","i","n"," ","l","a","n","g","u","a","g","e",".">>] >>

\* null
NoKnowledge == <<"[null]">>

matchKnowledge(s) ==
    LET hits == {i \in 1..Len(KNOWLEDGE_BASE) : ContainsAny(s, KNOWLEDGE_BASE[i].triggers)}
    IN  IF hits = {} THEN NoKnowledge
        ELSE KNOWLEDGE_BASE[CHOOSE i \in hits : \A j \in hits : i <= j].response

\* The flags of the regular expressions of KNOWLEDGE_BASE with the g flag added.
TriggerFlagsGlobal == {"g", "i"}

\* The flags of the regular expressions of KNOWLEDGE_BASE: /.../i
TriggerFlags == {"i"}

\* RegExp.prototype.test of /w1|w2|.../flags on s, for a regular expression
\* object whose lastIndex is last: whether it matched, and the lastIndex it
\* leaves.  Only a global expression starts at lastIndex and writes it: the
\* end of the match, or 0 when nothing matched.  No two words of an
\* expression of the source match at the same position.
regexTest(words, flags, last, s) ==
    LET from == IF "g" \in flags THEN last ELSE 0
        hits == {p \in (from + 1)..Len(s) : \E w \in words : MatchAt(s, p, w)}
    IN  IF hits = {}
        THEN [matched |-> FALSE, lastIndex |-> IF "g" \in flags THEN 0 ELSE last]
        ELSE LET p == CHOOSE q \in hits : \A r \in hits : q <= r
                 w == CHOOSE v \in words : MatchAt(s, p, v)
             IN  [matched |-> TRUE,
                  lastIndex |-> IF "g" \in flags THEN p - 1 + Len(w) ELSE last]

\* matchKnowledge on the regular expression objects the module keeps: find
\* tests the entries from entry k on and stops at the first that matches;
\* idx[k] is the lastIndex of the expression of entry k.  The result is the
\* response (or null) and the lastIndex values the tests left.
RECURSIVE findKnowledge(_, _, _)
findKnowledge(s, k, idx) ==
    IF k > Len(KNOWLEDGE_BASE) THEN [response |-> NoKnowledge, lastIndex |-> idx]
    ELSE LET tested == regexTest(KNOWLEDGE_BASE[k].triggers, TriggerFlags, idx[k], s)
             after == [idx EXCEPT ![k] = tested.lastIndex]
         IN  IF tested.matched
             THEN [response |-> KNOWLEDGE_BASE[k].response, lastIndex |-> after]
             ELSE findKnowledge(s, k + 1, after)

GenericPrompt ==
    <<"-"," ","R","e","f","l","e","c","t"," ","y","o","u","r"," ","o","b","j","e","c","t","i","v","e"," ","i","n"," ","o","n","e"," ","s","e","n","t","e","n","c","e"," ","t","o"," ","c","o","n","f","i","r","m"," ","I"," ","u","n","d","e","r","s","t","o","o","d"," ","i","t"," ","c","o","r","r","e","c","t","l","y",".","\n","-"," ","I","d","e","n","t","i","f","y"," ","o","n","e"," ","b","l","o","c","k","e","r"," ","o","r"," ","v","a","r","i","a","b","l","e"," ","t","h","a","t"," ","w","o","r","r","i","e","s"," ","y","o","u",".","\n","-"," ","A","s","k"," ","f","o","r"," ","a"," ","c","o","n","c","r","e","t","e"," ","a","r","t","e","f","a","c","t",":"," ","p","l","a","n",","," ","o","u","t","l","i","n","e",","," ","s","c","r","i","p","t",","," ","c","a","l","c","u","l","a","t","i","o","n",","," ","o","r"," ","c","r","i","t","i","q","u","e",".">>

(***************************************************************************)
(* followUpSuggestions (Chat.tsx:500-539).                                 *)
(***************************************************************************)
followUpSuggestions(i) ==
    CASE i = "math" ->
            <<"Compare this result with another scenario",
              "Ask me to turn the numbers into a short explanation",
              "Create a table of outcomes with different variables">>
      [] i = "plan" ->
            <<"Request a 7-day timeline for the plan",
              "Ask for the single most important milestone",
              "Turn the plan into calendar-friendly blocks">>
      [] i = "brainstorm" ->
            <<"Narrow ideas down to one standout concept",
              "Turn this concept into a user journey",
              "Draft a 3-sentence pitch for the top idea">>
      [] i = "summarize" ->
            <<"Extract action items from the summary",
              "Highlight risks or open questions",
              "Refine the summary for a stakeholder update">>
      [] i = "prioritize" ->
            <<"Group tasks by effort versus impact",
              "Schedule the top task with a realistic time slot",
              "Delegate or defer the lowest priorities">>
      [] OTHER ->
            <<"Ask me to dive deeper into one takeaway",
              "Layer in real constraints (time, budget, audience)",
              "Convert this into an actionable checklist">>

(***************************************************************************)
(* runAgent (Chat.tsx:541-651).  The route hands it whatever array the     *)
(* request body held, so an entry may be null, and the role or the content *)
(* of an entry may be absent or no string.                                 *)
(***************************************************************************)
\* A content that is no string: absent, a number, an object.
NonText == <<"[not a string]">>

\* A role that is absent.
AbsentRole == "[absent]"

\* An array entry that is null.
JsonNull == [role |-> "[null]", content |-> NonText]

IsNull(entry) == entry = JsonNull

\* A rejected promise: a TypeError thrown inside runAgent.
Thrown == [thrown |-> "TypeError"]

Step(title, content) == [title |-> title, content |-> content]

Reply(content, steps, suggestions) ==
    [role |-> "assistant", content |-> content, steps |-> steps,
     suggestions |-> suggestions]

IdleReply ==
    Reply(<<"I","'","m"," ","r","e","a","d","y"," ","w","h","e","n","e","v","e","r"," ","y","o","u"," ","a","r","e",".">>,
          <<Step("Status", "No user input detected, so I am idling.")>>,
          <<"Give me a goal with a tight deadline",
            "Ask me to condense a long message",
            "Share tasks and I will prioritise them">>)

\* messages.find(...) without the reverse: the index of the first user
\* message, 0 when there is none, -1 when reading a role throws.
RECURSIVE findFirstUserFrom(_, _)
findFirstUserFrom(msgs, i) ==
    IF i > Len(msgs) THEN 0
    ELSE IF IsNull(msgs[i]) THEN -1
    ELSE IF msgs[i].role = "user" THEN i
    ELSE findFirstUserFrom(msgs, i + 1)

findFirstUser(msgs) == findFirstUserFrom(msgs, 1)

\* [...messages].reverse().find((message) => message.role === "user"): the
\* index of the last user message, 0 when there is none, -1 when reading the
\* role of a null entry throws.
RECURSIVE findLastUserFrom(_, _)
findLastUserFrom(msgs, i) ==
    IF i = 0 THEN 0
    ELSE IF IsNull(msgs[i]) THEN -1
    ELSE IF msgs[i].role = "user" THEN i
    ELSE findLastUserFrom(msgs, i - 1)

findLastUser(msgs) == findLastUserFrom(msgs, Len(msgs))

\* summarizeConversation throws on a null entry among the last six, and on a
\* kept entry whose content has no replace method.
summarizeThrows(h) ==
    LET window == SliceLast(h, SummaryWindow)
    IN  \E i \in 1..Len(window) :
            \/ IsNull(window[i])
            \/ window[i].role # "system" /\ window[i].content = NonText

IntentStep(i) ==
    Step("Intent Detection", "Input suggests a **" \o i \o "** style response.")

NextMoveStep ==
    Step("Next Move", "Suggested follow-up paths to continue the session.")

\* The default branch of the switch: the matched knowledge, or the generic
\* prompt when matchKnowledge returned null.
knowledgeOrFallback(knowledge) ==
    IF knowledge # NoKnowledge
    THEN [content |-> knowledge,
          step |-> Step("Knowledge",
            "Matched the topic against the curated playbook and surfaced relevant tactics.")]
    ELSE [content |-> GenericPrompt,
          step |-> Step("Fallback",
            "No direct tool matched, so I offered a structured prompt to refine the conversation.")]

\* The switch of runAgent: the content and the step of the generator.
generate(i, userText, msgs) ==
    CASE i = "math" ->
            [content |-> calculateExpression(userText),
             step |-> Step("Tool",
                "Evaluated arithmetic expression using the safe math parser.")]
      [] i = "plan" ->
            [content |-> buildPlan(userText),
             step |-> Step("Method",
                "Expanded request into a structured plan with five sequenced actions.")]
      [] i = "brainstorm" ->
            [content |-> brainstormIdeas(userText),
             step |-> Step("Method",
                "Generated four contrasting idea angles to encourage divergent thinking.")]
      [] i = "summarize" ->
            [content |-> summarizeConversation(msgs),
             step |-> Step("Method",
                "Compressed the last exchanges into a concise bullet-point recap.")]
      [] i = "prioritize" ->
            [content |-> prioritiseTasks(userText),
             step |-> Step("Method",
                "Ranked supplied tasks based on urgency and impact heuristics to highlight what to do first.")]
      [] OTHER -> knowledgeOrFallback(matchKnowledge(userText))

\* The object runAgent returns without the push of the next-move step.
assembleWithoutNextMove(i, generated) ==
    Reply(generated.content,
          <<IntentStep(i), generated.step>>,
          followUpSuggestions(i))

\* The object runAgent returns: the content of the generator, its step
\* between the intent step and the next-move step, and the suggestions.
assemble(i, generated) ==
    Reply(generated.content,
          <<IntentStep(i), generated.step, NextMoveStep>>,
          followUpSuggestions(i))

\* runAgent once the intent of the user text is known.
respond(i, userText, msgs) ==
    IF i = "summarize" /\ summarizeThrows(msgs) THEN Thrown
    ELSE assemble(i, generate(i, userText, msgs))

\* runAgent once the trimmed text of the last user message is known.
answerText(userText, msgs) == respond(classifyIntent(userText), userText, msgs)

\* runAgent from the user message at index last on.
replyTo(msgs, last) ==
    IF last = -1 THEN Thrown
    ELSE IF last = 0 THEN IdleReply
    ELSE IF msgs[last].content = NonText THEN Thrown
    ELSE answerText(Trim(msgs[last].content), msgs)

\* runAgent answering the first user message instead of the last.
runAgentFirstUser(msgs) == replyTo(msgs, findFirstUser(msgs))

runAgent(msgs) == replyTo(msgs, findLastUser(msgs))

(***************************************************************************)
(* runAgent with the objects the module creates once and every invocation  *)
(* shares: the regular expressions of KNOWLEDGE_BASE (Chat.tsx:373-389)    *)
(* and the parser (Chat.tsx:371).  A regular expression literal inside a   *)
(* function body is a new object at each evaluation, so only the           *)
(* expressions of KNOWLEDGE_BASE keep a lastIndex from one invocation to   *)
(* the next.  parser.evaluate is given no variables and the cleaned        *)
(* expression holds no identifier and no assignment, so an evaluation      *)
(* writes nothing into the parser.                                         *)
(***************************************************************************)
\* Whether runAgent reaches the default branch of its switch.
reachesKnowledge(msgs) ==
    LET last == findLastUser(msgs)
    IN  /\ last > 0
        /\ msgs[last].content # NonText
        /\ classifyIntent(Trim(msgs[last].content)) = "insight"

\* const userText = last.content.trim()
lastUserText(msgs) == Trim(msgs[findLastUser(msgs)].content)

\* The reply of the default branch for what matchKnowledge found, with the
\* lastIndex values the lookup left.
knowledgeReply(found) ==
    [reply |-> assemble("insight", knowledgeOrFallback(found.response)),
     lastIndex |-> found.lastIndex]

\* One invocation of runAgent when the expressions of KNOWLEDGE_BASE have
\* the lastIndex values idx: its reply and the values it leaves.
invokeAgent(msgs, idx) ==
    IF reachesKnowledge(msgs)
    THEN knowledgeReply(findKnowledge(lastUserText(msgs), 1, idx))
    ELSE [reply |-> runAgent(msgs), lastIndex |-> idx]

(***************************************************************************)
(* POST /api/chat (route.ts:6-27).  A request has a body that request.json *)
(* either cannot parse or parses to a JSON value; of an object only its    *)
(* messages member matters.                                                *)
(***************************************************************************)
JsonTypes == {"null", "scalar", "object", "array"}

\* A member value: absent ("missing"), or a JSON value; items is the content
\* of an array.
Member(type, items) == [type |-> type, items |-> items]

Request(parsable, bodyType, member) ==
    [parsable |-> parsable, bodyType |-> bodyType, messages |-> member]

Response(status, body, agentCalls) ==
    [status |-> status, body |-> body, agentCalls |-> agentCalls]

BadRequestBody == [error |-> "Please provide at least one user message."]
ServerErrorBody == [error |-> "Unexpected agent error. Please try again."]

\* The try block around runAgent: its result as JSON, or the 500 of the catch.
agentResponse(result) ==
    IF result = Thrown THEN Response(500, ServerErrorBody, 1)
    ELSE Response(200, result, 1)

POST(req) ==
    IF ~req.parsable THEN Response(500, ServerErrorBody, 0)
    ELSE
        \* body?.messages ?? []
        LET found == IF req.bodyType = "object" /\ req.messages.type \notin {"missing", "null"}
                     THEN req.messages
                     ELSE Member("array", << >>)
        IN  IF found.type # "array" \/ Len(found.items) = 0
            THEN Response(400, BadRequestBody, 0)
            ELSE agentResponse(runAgent(found.items))

(***************************************************************************)
(* The Chat component (Chat.tsx:22-120).  React runs a handler to its end  *)
(* (or to its first await) and renders before the next event, so a handler *)
(* reads the state the previous one left.  The id of a message (createId)  *)
(* is only a rendering key and is left out; a message without steps or     *)
(* suggestions has them empty.                                             *)
(***************************************************************************)
SAMPLE_PROMPTS == {
    <<"H","e","l","p"," ","m","e"," ","p","l","a","n"," ","a"," ","f","o","c","u","s","e","d"," ","3","0","-","m","i","n","u","t","e"," ","w","o","r","k","o","u","t"," ","t","h","a","t"," ","a","l","t","e","r","n","a","t","e","s"," ","c","a","r","d","i","o"," ","a","n","d"," ","s","t","r","e","n","g","t","h",".">>,
    <<"I"," ","n","e","e","d"," ","t","h","r","e","e"," ","m","a","r","k","e","t","i","n","g"," ","i","d","e","a","s"," ","f","o","r"," ","a"," ","z","e","r","o","-","w","a","s","t","e"," ","c","o","f","f","e","e"," ","b","r","a","n","d",".">>,
    <<"S","u","m","m","a","r","i","z","e"," ","o","u","r"," ","c","o","n","v","e","r","s","a","t","i","o","n"," ","s","o"," ","f","a","r"," ","i","n"," ","b","u","l","l","e","t"," ","p","o","i","n","t","s",".">>,
    <<"S","o","l","v","e",":"," ","I","f"," ","I"," ","i","n","v","e","s","t"," ","$","1","5","0"," ","m","o","n","t","h","l","y"," ","a","t"," ","5","%"," ","a","n","n","u","a","l"," ","i","n","t","e","r","e","s","t",","," ","w","h","a","t","'","s"," ","t","h","e"," ","b","a","l","a","n","c","e"," ","a","f","t","e","r"," ","3"," ","y","e","a","r","s","?">> }

UIMessage(role, content, steps, suggestions) ==
    [role |-> role, content |-> content, steps |-> steps, suggestions |-> suggestions]

Greeting ==
    UIMessage("assistant",
        <<"H","i",","," ","I"," ","a","m"," ","R","a","d","i","u","s","."," ","I"," ","c","a","n"," ","b","r","e","a","k"," ","d","o","w","n"," ","y","o","u","r"," ","g","o","a","l","s",","," ","c","r","u","n","c","h"," ","q","u","i","c","k"," ","n","u","m","b","e","r","s",","," ","a","n","d"," ","s","u","g","g","e","s","t"," ","c","o","n","c","r","e","t","e"," ","n","e","x","t"," ","s","t","e","p","s","."," ","W","h","a","t"," ","s","h","o","u","l","d"," ","w","e"," ","w","o","r","k"," ","o","n","?">>,
        << >>,
        <<"Plan my afternoon to finish two tasks",
          "Draft a friendly follow-up email",
          "Help me estimate a monthly budget">>)

Apology ==
    UIMessage("assistant",
        <<"I"," ","r","a","n"," ","i","n","t","o"," ","a"," ","g","l","i","t","c","h"," ","w","h","i","l","e"," ","t","h","i","n","k","i","n","g","."," ","T","r","y"," ","a","g","a","i","n"," ","i","n"," ","a"," ","m","o","m","e","n","t"," ","o","r"," ","r","e","p","h","r","a","s","e"," ","y","o","u","r"," ","r","e","q","u","e","s","t",".">>,
        << >>, << >>)

\* roundedMessages without the first message of the list.
roundedMessagesAfterFirst(msgs) ==
    [i \in 1..(Len(msgs) - 1) |-> Msg(msgs[i + 1].role, msgs[i + 1].content)]

\* messages.map(({ role, content }) => ({ role, content }))
roundedMessages(msgs) ==
    [i \in 1..Len(msgs) |-> Msg(msgs[i].role, msgs[i].content)]

\* The last handler run: its kind, its argument, the outcome of the request
\* (for a settled request) and the value pending had when it started.
Event(type, arg, outcome, wasPending) ==
    [type |-> type, arg |-> arg, outcome |-> outcome, wasPending |-> wasPending]

\* The guard of handleSubmit with && in the place of ||.
submitIgnoredWhenBoth(inputValue, isPending) == Trim(inputValue) = << >> /\ isPending

\* if (!input.trim() || pending) return;
submitIgnored(inputValue, isPending) == Trim(inputValue) = << >> \/ isPending

\* handlePromptSelect without the test of pending.
promptSelectedAlways(prompt, inputValue, isPending) == prompt

\* handlePromptSelect: the value of input after it.
promptSelected(prompt, inputValue, isPending) ==
    IF isPending THEN inputValue ELSE prompt

\* What the awaiting handleSubmit appends for a 200 response with a
\* parsable body, without the spread of the payload: always the apology.
settledMessageApologyOnly(req, outcome) == Apology

\* What handleSubmit appends for a response: { id, ...payload } when the
\* response is ok and its body parses, the apology of the catch otherwise.
received(response, outcome) ==
    IF outcome = "served" /\ response.status = 200
    THEN [role |-> response.body.role, content |-> response.body.content,
          steps |-> response.body.steps, suggestions |-> response.body.suggestions]
    ELSE Apology

\* The message the awaiting handleSubmit appends once its fetch has settled:
\* the payload of an ok response, the apology when fetch rejected, the
\* response was not ok or its body could not be parsed.
settledMessage(req, outcome) == received(POST(req), outcome)

(***************************************************************************)
(* The idle values of the harnesses a specification does not use.          *)
(***************************************************************************)
UIIdle ==
    /\ messages = << >>
    /\ input = << >>
    /\ pending = FALSE
    /\ inflight = << >>
    /\ event = None

\* The route harness before a request is given, and before POST has answered.
NoRequest == [none |-> "request"]
NoResponse == [none |-> "response"]

RouteIdle == httpRequest = NoRequest /\ httpResponse = NoResponse
ClassifyIdle == text = << >> /\ intent = None
SummaryIdle == history = << >> /\ summary = None
PriorityIdle == taskText = << >> /\ ranking = None

CalcIdle == mathText = << >> /\ mathResult = None

\* The server after the module is loaded: a regular expression is created
\* with lastIndex 0, and no request has arrived.
ServerIdle ==
    /\ lastIndex = [k \in 1..Len(KNOWLEDGE_BASE) |-> 0]
    /\ calls = << >>
    /\ agentLog = {}

(***************************************************************************)
(* ClassifySpec: classifyIntent applied to every text made of at most      *)
(* MaxTokens of the tokens below.                                          *)
(***************************************************************************)
ClassifyTokens ==
    {<<"1">>, <<"1","5","0">>, <<"+">>, <<" ">>, <<"x">>, <<"\n">>,
     <<"P","l","a","n">>, <<"r","e","c","a","p">>, <<"i","d","e","a">>, <<"p","r","i","o","r","i","t","i","z","e">>, <<"o","r","d","e","r">>, <<"t","a","s","k","s">>}

ClassifyTexts == TextsOf(ClassifyTokens, MaxTokens)

ClassifyInit ==
    /\ text \in ClassifyTexts
    /\ intent = None
    /\ UIIdle /\ RouteIdle /\ SummaryIdle /\ PriorityIdle /\ ServerIdle /\ CalcIdle

Classify ==
    /\ intent = None
    /\ intent' = classifyIntent(text)
    /\ UNCHANGED <<text, uiVars, routeVars, summaryVars, priorityVars, serverVars, calcVars>>

ClassifyNext == Classify

ClassifySpec == ClassifyInit /\ [][ClassifyNext]_vars

(***************************************************************************)
(* Claims about classifyIntent.                                            *)
(***************************************************************************)
\* The categories in the order the claim gives, each with its test.
IntentOrder == <<"math", "plan", "brainstorm", "summarize", "prioritize">>

PatternOf(category, s) ==
    CASE category = "math"       -> MathPattern(s)
      [] category = "plan"       -> PlanPattern(s)
      [] category = "brainstorm" -> BrainstormPattern(s)
      [] category = "summarize"  -> SummarizePattern(s)
      [] category = "prioritize" -> PrioritizePattern(s)

FirstMatch(s) ==
    LET hits == {i \in 1..Len(IntentOrder) : PatternOf(IntentOrder[i], s)}
    IN  IF hits = {} THEN "insight"
        ELSE IntentOrder[CHOOSE i \in hits : \A j \in hits : i <= j]

\* C6: classifyIntent returns exactly one intent, the first category in the
\* order math, plan, brainstorm, summarize, prioritize whose test matches the
\* text, and insight exactly when none matches.
C6_FirstMatchWins ==
    intent # None =>
        /\ intent \in Intents
        /\ intent = FirstMatch(text)
        /\ (intent = "insight" <=>
                \A i \in 1..Len(IntentOrder) : ~PatternOf(IntentOrder[i], text))

\* C6, witness: a text with both the arithmetic pattern and planning
\* vocabulary was classified as math.
C6_Witness ==
    /\ intent = "math"
    /\ MathPattern(text)
    /\ PlanPattern(text)

\* An arithmetic operator stands somewhere between two digits of s.
Operators == {"+", "-", "*", "/", "%", "^"}

OperatorBetweenNumbers(s) ==
    \E i \in 1..Len(s) : \E j \in (i + 2)..Len(s) :
        /\ s[i] \in Digits
        /\ s[j] \in Digits
        /\ \E k \in (i + 1)..(j - 1) : s[k] \in Operators

\* C7: a text with no digits, or with digits but no arithmetic operator
\* between number tokens, is never classified as math.
C7_NoOperatorNeverMath ==
    (intent # None /\ ~OperatorBetweenNumbers(text)) => intent # "math"

(***************************************************************************)
(* SummarySpec: summarizeConversation applied to every history of at most  *)
(* MaxHistory messages; the content of a message tells its position.       *)
(***************************************************************************)
ContentAt(i) == <<" ","n","o","t","e","\n","\n">> \o NatToString(i) \o <<" ">>

Histories ==
    UNION {{[i \in 1..n |-> Msg(roles[i], ContentAt(i))] : roles \in [1..n -> AgentRoles]}
           : n \in 0..MaxHistory}

SummaryInit ==
    /\ history \in Histories
    /\ summary = None
    /\ UIIdle /\ RouteIdle /\ ClassifyIdle /\ PriorityIdle /\ ServerIdle /\ CalcIdle

Summarize ==
    /\ summary = None
    /\ summary' = summarizeConversation(history)
    /\ UNCHANGED <<history, uiVars, routeVars, classifyVars, priorityVars, serverVars, calcVars>>

SummaryNext == Summarize

SummarySpec == SummaryInit /\ [][SummaryNext]_vars

\* C9: with at least 6 non-system messages in the history, the summary
\* renders exactly the last 6 non-system messages, oldest first, one bullet
\* each; the fixed "nothing to summarise" text is returned exactly when the
\* history holds no non-system message.
C9_LastSixNonSystem ==
    summary # None =>
        LET nonSystem == SelectSeq(history, NotSystem)
        IN  /\ Len(nonSystem) >= 6 =>
                summary = renderSummary(SliceLast(nonSystem, 6))
            /\ summary = NothingToSummarise <=> nonSystem = << >>

(***************************************************************************)
(* PrioritySpec: prioritiseTasks applied to every list of at most MaxTasks  *)
(* of the entries below, separated by a comma, a semicolon or a newline.   *)
(***************************************************************************)
TaskEntries ==
    {<<"e","m","a","i","l">>, <<"n","o","t","e","s"," ">>, <<" ","L","a","u","n","c","h"," ","t","o","d","a","y">>, <<"p","r","e","p"," ","n","o","w">>, <<"a","s","a","p">>, <<" ">>}

TaskSeparators == {<<",">>, <<";">>, <<"\n">>}

RECURSIVE Interleave(_, _)
Interleave(entries, seps) ==
    IF Len(entries) <= 1 THEN Flatten(entries)
    ELSE Head(entries) \o Head(seps) \o Interleave(Tail(entries), Tail(seps))

TaskTexts ==
    {<< >>} \cup
    UNION {{Interleave(es, ss) : es \in [1..n -> TaskEntries],
                                 ss \in [1..(n - 1) -> TaskSeparators]}
           : n \in 1..MaxTasks}

PriorityInit ==
    /\ taskText \in TaskTexts
    /\ ranking = None
    /\ UIIdle /\ RouteIdle /\ ClassifyIdle /\ SummaryIdle /\ ServerIdle /\ CalcIdle

Prioritise ==
    /\ ranking = None
    /\ ranking' = prioritiseTasks(taskText)
    /\ UNCHANGED <<taskText, uiVars, routeVars, classifyVars, summaryVars, serverVars, calcVars>>

PriorityNext == Prioritise

PrioritySpec == PriorityInit /\ [][PriorityNext]_vars

\* The tasks the claim retains: the entries of more than 4 characters.
RetainedTasks(s) == taskLines(s)

ClaimScore(task) == 2 * urgencyScore(task) + impactScore(task)

\* The place of retained task i in the claimed order: after every task of a
\* higher score and every earlier task of the same score.
ClaimedPlace(tasks, i) ==
    1 + Cardinality({j \in 1..Len(tasks) :
            \/ ClaimScore(tasks[j]) > ClaimScore(tasks[i])
            \/ ClaimScore(tasks[j]) = ClaimScore(tasks[i]) /\ j < i})

ClaimedRanking(tasks) ==
    [p \in 1..Len(tasks) |->
        LET i == CHOOSE k \in 1..Len(tasks) : ClaimedPlace(tasks, k) = p
        IN  [task |-> tasks[i], score |-> ClaimScore(tasks[i]), index |-> i - 1]]

\* C10: prioritiseTasks scores every retained task as 2*urgency + impact
\* (urgency 1 or 3, impact 1, 2 or 3) and lists the retained tasks, each once,
\* by score descending, equal scores in input order; with no retained task it
\* returns the instructive text.
C10_StableRanking ==
    ranking # None =>
        LET tasks == RetainedTasks(taskText)
        IN  /\ \A i \in 1..Len(tasks) :
                /\ urgencyScore(tasks[i]) \in {1, 3}
                /\ impactScore(tasks[i]) \in {1, 2, 3}
            /\ IF tasks = << >>
               THEN ranking = NoTasksText
               ELSE ranking = renderRanking(ClaimedRanking(tasks))

\* C10, witness: three tasks were ranked, two of them with equal scores and
\* one with a higher score that came later in the input.
C10_Witness ==
    /\ ranking # None
    /\ LET tasks == RetainedTasks(taskText)
       IN  /\ Len(tasks) >= 2
           /\ \E i, j \in 1..Len(tasks) :
                i < j /\ tasks[i] # tasks[j] /\ ClaimScore(tasks[i]) = ClaimScore(tasks[j])
           /\ \E i, j \in 1..Len(tasks) :
                i < j /\ ClaimScore(tasks[i]) < ClaimScore(tasks[j])

(***************************************************************************)
(* RouteSpec: POST applied to every request whose body is unparsable, or   *)
(* no object, or an object whose messages member is absent, no array, or   *)
(* an array of at most MaxEntries of the entries below.                    *)
(***************************************************************************)
TypedEntries ==
    {Msg("user", <<"2","+","2">>), Msg("user", <<" ","r","e","c","a","p"," ">>), Msg("user", <<"h","e","l","l","o">>),
     Msg("assistant", <<"P","l","a","n">>), Msg("system", <<"b","e"," ","b","r","i","e","f">>)}

MalformedEntries ==
    {Msg("user", NonText), Msg("assistant", NonText), Msg(AbsentRole, <<"i","d","e","a">>), JsonNull}

RouteEntries == TypedEntries \cup MalformedEntries

Requests ==
    {Request(FALSE, "null", Member("missing", << >>))}
    \cup {Request(TRUE, t, Member("missing", << >>)) : t \in JsonTypes}
    \cup {Request(TRUE, "object", Member(t, << >>)) : t \in {"null", "scalar", "object"}}
    \cup {Request(TRUE, "object", Member("array", items)) :
            items \in UNION {[1..n -> RouteEntries] : n \in 0..MaxEntries}}

RouteInit ==
    /\ httpRequest \in Requests
    /\ httpResponse = NoResponse
    /\ UIIdle /\ ClassifyIdle /\ SummaryIdle /\ PriorityIdle /\ ServerIdle /\ CalcIdle

Post ==
    /\ httpResponse = NoResponse
    /\ httpResponse' = POST(httpRequest)
    /\ UNCHANGED <<httpRequest, uiVars, classifyVars, summaryVars, priorityVars, serverVars, calcVars>>

RouteNext == Post

RouteSpec == RouteInit /\ [][RouteNext]_vars

\* The request carried a non-empty array as its messages.
NonEmptyArray(req) ==
    /\ req.parsable
    /\ req.bodyType = "object"
    /\ req.messages.type = "array"
    /\ req.messages.items # << >>

\* C4: POST answers 400 with the fixed error body exactly when the messages
\* of the (parsed) request body are missing, no array or an empty array, and
\* then runAgent is not invoked; for a non-empty array it invokes runAgent
\* once and returns its reply with status 200.
C4_ValidationOnly ==
    (httpResponse # NoResponse /\ httpRequest.parsable) =>
        IF NonEmptyArray(httpRequest)
        THEN /\ httpResponse.status = 200
             /\ httpResponse.agentCalls = 1
             /\ httpResponse.body = runAgent(httpRequest.messages.items)
        ELSE /\ httpResponse.status = 400
             /\ httpResponse.body = BadRequestBody
             /\ httpResponse.agentCalls = 0

\* C5: runAgent never raises, whatever the entries of the list are, so a
\* non-empty messages array never gets the 500 response.
C5_NeverThrows ==
    (httpResponse # NoResponse /\ NonEmptyArray(httpRequest)) =>
        /\ runAgent(httpRequest.messages.items) # Thrown
        /\ httpResponse.status # 500

WellTyped(items) ==
    \A i \in 1..Len(items) :
        items[i].role \in AgentRoles /\ items[i].content # NonText

UserIndexes(items) == {i \in 1..Len(items) : items[i].role = "user"}

\* C8: runAgent classifies the text of the most recent user message, whatever
\* follows it; a list with no user message gets the fixed idle reply, with one
\* step and three suggestions, and nothing is classified.
C8_LastUserSelected ==
    /\ runAgent(<< >>) = IdleReply
    /\ (httpResponse # NoResponse /\ NonEmptyArray(httpRequest)
            /\ WellTyped(httpRequest.messages.items)) =>
        LET items == httpRequest.messages.items
            users == UserIndexes(items)
            reply == httpResponse.body
        IN  /\ httpResponse.status = 200
            /\ IF users = {}
               THEN /\ reply.content = <<"I","'","m"," ","r","e","a","d","y"," ","w","h","e","n","e","v","e","r"," ","y","o","u"," ","a","r","e",".">>
                    /\ Len(reply.steps) = 1
                    /\ reply.steps[1].title # "Intent Detection"
                    /\ Len(reply.suggestions) = 3
               ELSE LET last == CHOOSE i \in users : \A j \in users : j <= i
                        i == classifyIntent(Trim(items[last].content))
                    IN  /\ reply.steps[1] = IntentStep(i)
                        /\ reply.content = generate(i, Trim(items[last].content), items).content
                        /\ reply.suggestions = followUpSuggestions(i)

\* C8, witness: the answered user message is followed by an assistant message
\* and preceded by a user message of another intent.
C8_Witness ==
    /\ httpResponse # NoResponse
    /\ NonEmptyArray(httpRequest)
    /\ WellTyped(httpRequest.messages.items)
    /\ LET items == httpRequest.messages.items
       IN  /\ Len(items) = 3
           /\ items[1].role = "user"
           /\ items[2].role = "user"
           /\ items[3].role = "assistant"
           /\ classifyIntent(Trim(items[1].content)) # classifyIntent(Trim(items[2].content))
           /\ httpResponse.body.steps[1] = IntentStep(classifyIntent(Trim(items[2].content)))

(***************************************************************************)
(* Spec: the Chat component with its requests to POST /api/chat.           *)
(***************************************************************************)
\* What the user may type into the composer.
TypedInputs == {<< >>, <<" ","\n">>, <<" ","2","+","2"," ">>, <<"r","e","c","a","p">>}

\* How a request may end: answered by the route, fetch rejected, answered
\* with an error status by something in between, or with a body that is no JSON.
Outcomes == {"served", "networkError", "errorStatus", "unparsableBody"}

Init ==
    /\ messages = <<Greeting>>
    /\ input = << >>
    /\ pending = FALSE
    /\ inflight = << >>
    /\ event = Event("mount", << >>, "", FALSE)
    /\ RouteIdle /\ ClassifyIdle /\ SummaryIdle /\ PriorityIdle /\ ServerIdle /\ CalcIdle

harnessVars == <<routeVars, classifyVars, summaryVars, priorityVars, serverVars, calcVars>>

\* onChange of the textarea, which is disabled while pending.
ChangeInput(value) ==
    /\ ~pending
    /\ input' = value
    /\ event' = Event("change", value, "", pending)
    /\ UNCHANGED <<messages, pending, inflight, harnessVars>>

\* handleSubmit up to its await.
HandleSubmit ==
    /\ Len(messages) < 2 * MaxTurns
    /\ event' = Event("submit", input, "", pending)
    /\ IF submitIgnored(input, pending)
       THEN UNCHANGED <<messages, input, pending, inflight>>
       ELSE LET userMessage == UIMessage("user", Trim(input), << >>, << >>)
            IN  /\ input' = << >>
                /\ messages' = Append(messages, userMessage)
                /\ pending' = TRUE
                /\ inflight' = Append(inflight,
                        Request(TRUE, "object",
                            Member("array",
                                roundedMessages(messages)
                                    \o <<Msg("user", userMessage.content)>>)))
    /\ UNCHANGED harnessVars

HandlePromptSelect(prompt) ==
    /\ event' = Event("prompt", prompt, "", pending)
    /\ input' = promptSelected(prompt, input, pending)
    /\ UNCHANGED <<messages, pending, inflight, harnessVars>>

\* handleSubmit after its await, for the k-th request in flight.
Settle(k, outcome) ==
    /\ k \in 1..Len(inflight)
    /\ event' = Event("settle", << >>, outcome, pending)
    /\ messages' = Append(messages, settledMessage(inflight[k], outcome))
    /\ pending' = FALSE
    /\ inflight' = SubSeq(inflight, 1, k - 1) \o SubSeq(inflight, k + 1, Len(inflight))
    /\ UNCHANGED <<input, harnessVars>>

Next ==
    \/ \E value \in TypedInputs : ChangeInput(value)
    \/ HandleSubmit
    \/ \E prompt \in SAMPLE_PROMPTS : HandlePromptSelect(prompt)
    \/ \E k \in 1..Len(inflight), outcome \in Outcomes : Settle(k, outcome)

Spec == Init /\ [][Next]_vars

\* C1: at most one request is in flight, and a submit while pending, or with
\* an input that is empty once trimmed, changes neither the messages, the
\* input, pending nor the requests in flight.
C1_SingleInFlight ==
    /\ [](Len(inflight) <= 1)
    /\ [][(event'.type = "submit" /\ (pending \/ Trim(input) = << >>)) =>
            UNCHANGED <<messages, input, pending, inflight>>]_vars

\* C1, witness: a submit arrived while a request was in flight.
C1_Witness ==
    /\ event.type = "submit"
    /\ event.wasPending
    /\ Len(inflight) = 1

\* The appended message carries the reply of an ok response, and is the
\* apology for every other end of the request.
ReplyOrApology(appended, response, outcome) ==
    IF outcome = "served" /\ response.status = 200
    THEN /\ appended.content = response.body.content
         /\ appended.steps = response.body.steps
         /\ appended.suggestions = response.body.suggestions
    ELSE appended = Apology

\* C2: an accepted submit appends the user message with the trimmed input,
\* clears the input, sets pending and issues one request; when the request
\* settles exactly one assistant message is appended after that user message
\* (the reply of an ok response, the apology otherwise) and pending is
\* cleared, so that the component is idle again and accepts a submit.
C2_SubmitLifecycle ==
    [][/\ (event'.type = "submit" /\ ~pending /\ Trim(input) # << >>) =>
            /\ messages' = Append(messages, UIMessage("user", Trim(input), << >>, << >>))
            /\ input' = << >>
            /\ pending'
            /\ Len(inflight') = Len(inflight) + 1
       /\ event'.type = "settle" =>
            /\ pending /\ Len(inflight) = 1
            /\ Len(messages') = Len(messages) + 1
            /\ SubSeq(messages', 1, Len(messages)) = messages
            /\ messages[Len(messages)].role = "user"
            /\ messages'[Len(messages')].role = "assistant"
            /\ ReplyOrApology(messages'[Len(messages')], POST(inflight[1]), event'.outcome)
            /\ ~pending' /\ inflight' = << >>
            /\ ~submitIgnored(<<"x">>, pending')
      ]_vars

\* C2, witness: a second submit was accepted after the first request settled
\* with the apology.
C2_Witness ==
    /\ Len(messages) = 4
    /\ messages[3] = Apology
    /\ messages[4].role = "user"
    /\ pending

\* C3: selecting a sample prompt changes only the input, which becomes the
\* prompt; while pending it changes nothing at all.
C3_PromptOnlyInput ==
    [][event'.type = "prompt" =>
            /\ UNCHANGED <<messages, pending, inflight>>
            /\ IF pending THEN input' = input ELSE input' = event'.arg]_vars

\* C3, witness: a prompt was selected while a request was in flight.
C3_Witness ==
    /\ event.type = "prompt"
    /\ event.wasPending
    /\ pending
    /\ input = << >>

(***************************************************************************)
(* ServerSpec: one server process answering several requests.  POST is     *)
(* suspended at `await request.json()` and at `await runAgent(messages)`;  *)
(* runAgent holds no await, so one invocation runs to its end before       *)
(* another starts, and the invocations of several requests interleave in   *)
(* any order.                                                              *)
(***************************************************************************)
\* The message lists the server is asked about.
ServerInputs == {
    <<Msg("user", <<"f","o","c","u","s">>)>>,
    <<Msg("user", <<"e","x","a","m"," ","s","t","u","d","y">>), Msg("assistant", <<"o","k">>)>>,
    <<Msg("user", <<"h","e","l","l","o">>)>>,
    <<Msg("user", <<"2","+","2">>)>>,
    <<Msg("assistant", <<"h","e","l","l","o">>)>> }

\* The reply of an invocation whose runAgent has not run yet.
NotRun == [none |-> "reply"]

Call(msgs, reply) == [input |-> msgs, reply |-> reply]

ServerInit ==
    /\ ServerIdle /\ CalcIdle
    /\ UIIdle /\ RouteIdle /\ ClassifyIdle /\ SummaryIdle /\ PriorityIdle

otherVars == <<uiVars, routeVars, classifyVars, summaryVars, priorityVars, calcVars>>

\* POST up to the call of runAgent: the body is parsed and holds msgs.
Receive(msgs) ==
    /\ Len(calls) < MaxCalls
    /\ calls' = Append(calls, Call(msgs, NotRun))
    /\ UNCHANGED <<lastIndex, agentLog, otherVars>>

\* What runAgent leaves when it returns in the k-th invocation.
Returned(k, result) ==
    /\ calls' = [calls EXCEPT ![k].reply = result.reply]
    /\ lastIndex' = result.lastIndex

\* runAgent runs for the k-th invocation.
Run(k) ==
    /\ k \in 1..Len(calls)
    /\ calls[k].reply = NotRun
    /\ Returned(k, invokeAgent(calls[k].input, lastIndex))
    /\ UNCHANGED <<agentLog, otherVars>>

\* POST after `await runAgent(messages)`: the k-th invocation answers.
Deliver(k) ==
    /\ k \in 1..Len(calls)
    /\ calls[k].reply # NotRun
    /\ agentLog' = agentLog \cup {calls[k]}
    /\ calls' = SubSeq(calls, 1, k - 1) \o SubSeq(calls, k + 1, Len(calls))
    /\ UNCHANGED <<lastIndex, otherVars>>

ServerNext ==
    \/ \E msgs \in ServerInputs : Receive(msgs)
    \/ \E k \in 1..Len(calls) : Run(k)
    \/ \E k \in 1..Len(calls) : Deliver(k)

ServerSpec == ServerInit /\ [][ServerNext]_vars

\* The invocations that have returned: answered, or about to answer.
ReturnedCalls == agentLog \cup {calls[k] : k \in {j \in 1..Len(calls) : calls[j].reply # NotRun}}

\* C11: two invocations of runAgent with the same message list return equal
\* replies, whatever invocations ran before or between them: every reply is
\* the function runAgent of its input alone, and an invocation leaves the
\* shared regular expressions as it found them.
C11_Stateless ==
    /\ \A a, b \in ReturnedCalls : a.input = b.input => a.reply = b.reply
    /\ \A a \in ReturnedCalls : a.reply = runAgent(a.input)
    /\ \A k \in 1..Len(KNOWLEDGE_BASE) : lastIndex[k] = 0

\* C11, witness: a message list that matched the knowledge table has been
\* answered, and the same list has gone through runAgent again while a
\* request with another list, which also went through the table, is held.
C11_Witness ==
    /\ Len(calls) = 2
    /\ calls[1].reply # NotRun
    /\ calls[2].reply # NotRun
    /\ calls[1].input = <<Msg("user", <<"h","e","l","l","o">>)>>
    /\ calls[2].input = <<Msg("user", <<"f","o","c","u","s">>)>>
    /\ calls[2].reply.content = KNOWLEDGE_BASE[1].response
    /\ \E a \in agentLog : a.input = calls[2].input

(***************************************************************************)
(* ReplySpec: POST applied to the conversations of at most MaxConversation *)
(* of the entries below: a user text of every intent, with and without a   *)
(* word of the knowledge table, and entries that are no user message.      *)
(***************************************************************************)
ReplyEntries ==
    {Msg("user", <<"2","+","2">>), Msg("user", <<"p","l","a","n"," ","m","y"," ","l","a","u","n","c","h">>), Msg("user", <<"i","d","e","a","s">>),
     Msg("user", <<"r","e","c","a","p">>), Msg("user", <<"w","h","a","t"," ","t","o"," ","d","o"," ","f","i","r","s","t">>), Msg("user", <<"h","e","l","l","o">>),
     Msg("user", <<" ","F","o","c","u","s"," ">>), Msg("user", <<"e","x","a","m"," ","s","t","u","d","y">>), Msg("user", <<"a"," ","c","a","m","p","a","i","g","n">>),
     Msg("assistant", <<"f","o","c","u","s">>), Msg("system", <<"b","e"," ","b","r","i","e","f">>),
     Msg("user", NonText), JsonNull}

ReplyRequests ==
    {Request(TRUE, "object", Member("array", items)) :
        items \in UNION {[1..n -> ReplyEntries] : n \in 0..MaxConversation}}

ReplyInit ==
    /\ httpRequest \in ReplyRequests
    /\ httpResponse = NoResponse
    /\ UIIdle /\ ClassifyIdle /\ SummaryIdle /\ PriorityIdle /\ ServerIdle /\ CalcIdle

ReplyNext == Post

ReplySpec == ReplyInit /\ [][ReplyNext]_vars

\* The titles of the steps a generator records.
GeneratorTitles == {"Tool", "Method", "Knowledge", "Fallback"}

\* The responses of the knowledge table.
KnowledgeResponses == {KNOWLEDGE_BASE[k].response : k \in 1..Len(KNOWLEDGE_BASE)}

\* A word of the knowledge table occurs in s.
KnowledgeHit(s) ==
    \E k \in 1..Len(KNOWLEDGE_BASE) : \E w \in KNOWLEDGE_BASE[k].triggers : Contains(s, w)

\* The reply has the three steps in their order and the suggestions of the
\* intent i; its content comes from the knowledge table or is the generic
\* prompt only for the intent insight, the prompt exactly when no word of
\* the table occurs in the user text (hit is false).
ReplyShape(reply, i, hit) ==
    /\ Len(reply.steps) = 3
    /\ reply.steps[1].title = "Intent Detection"
    /\ reply.steps[1] = IntentStep(i)
    /\ reply.steps[2].title \in GeneratorTitles
    /\ reply.steps[3].title = "Next Move"
    /\ Len(reply.suggestions) = 3
    /\ reply.suggestions = followUpSuggestions(i)
    /\ reply.steps[2].title \in {"Knowledge", "Fallback"} <=> i = "insight"
    /\ reply.content \in KnowledgeResponses \cup {GenericPrompt} => i = "insight"
    /\ i = "insight" =>
            /\ reply.steps[2].title = "Fallback" <=> ~hit
            /\ reply.content = GenericPrompt <=> ~hit
            /\ hit => reply.content \in KnowledgeResponses

\* C12: when the list holds a user message and runAgent returns, its reply
\* has exactly three steps, Intent Detection, one generator step and Next
\* Move, and the three suggestions of the classified intent; the knowledge
\* table is consulted only for the intent insight, and the generic prompt
\* is the content exactly when no entry of the table matches.
C12_ReplyShape ==
    (/\ httpResponse # NoResponse
     /\ httpResponse.status = 200
     /\ UserIndexes(httpRequest.messages.items) # {}) =>
        ReplyShape(httpResponse.body,
                   classifyIntent(lastUserText(httpRequest.messages.items)),
                   KnowledgeHit(lastUserText(httpRequest.messages.items)))

\* C12, witness: a reply from the knowledge table to a user message that
\* follows a user message of the intent plan holding a word of the table.
C12_Witness ==
    /\ httpResponse # NoResponse
    /\ httpResponse.status = 200
    /\ Len(httpRequest.messages.items) = 2
    /\ httpRequest.messages.items[1] = Msg("user", <<"p","l","a","n"," ","m","y"," ","l","a","u","n","c","h">>)
    /\ httpRequest.messages.items[2] = Msg("user", <<"e","x","a","m"," ","s","t","u","d","y">>)
    /\ httpResponse.body.steps[2].title = "Knowledge"
    /\ httpResponse.body.content = KNOWLEDGE_BASE[3].response

(***************************************************************************)
(* MathSpec: calculateExpression applied to every text made of at most     *)
(* MaxMathTokens of the tokens below, and POST applied to the request      *)
(* whose only message is that text from the user.                          *)
(***************************************************************************)
MathTokens == {<<"2">>, <<"+">>, <<"-">>, <<"*">>, <<"%"," ","0">>, <<"(">>, <<")">>, <<" ">>, <<"x">>}

MathTexts == TextsOf(MathTokens, MaxMathTokens)

MathInit ==
    /\ mathText \in MathTexts
    /\ mathResult = None
    /\ httpRequest = Request(TRUE, "object", Member("array", <<Msg("user", mathText)>>))
    /\ httpResponse = NoResponse
    /\ UIIdle /\ ClassifyIdle /\ SummaryIdle /\ PriorityIdle /\ ServerIdle

Calculate ==
    /\ mathResult = None
    /\ mathResult' = calculateExpression(mathText)
    /\ UNCHANGED <<mathText, uiVars, routeVars, classifyVars, summaryVars,
                   priorityVars, serverVars>>

MathNext ==
    \/ Calculate
    \/ Post

MathSpec == MathInit /\ [][MathNext]_vars

IsNotWhite(c) == c \notin WhiteSpace

BinaryOps == {"+", "-", "*", "%"}

\* The number of "(" less the number of ")" among the first k characters.
Depth(s, k) ==
    Cardinality({i \in 1..k : s[i] = "("}) - Cardinality({i \in 1..k : s[i] = ")"})

\* The sanitized text c is no arithmetic expression: its parentheses do not
\* balance, an operator lacks an operand, or two operands stand side by side.
Malformed(c) ==
    LET nw == SelectSeq(c, IsNotWhite)
        n == Len(nw)
    IN  \/ n = 0
        \/ Depth(nw, n) # 0
        \/ \E k \in 1..n : Depth(nw, k) < 0
        \/ nw[1] \in {"*", "%", ")"}
        \/ nw[n] \in BinaryOps \cup {"("}
        \/ \E k \in 1..(n - 1) :
                \/ nw[k] \in BinaryOps \cup {"("} /\ nw[k + 1] \in {"*", "%", ")"}
                \/ nw[k] \in Digits \cup {")"} /\ nw[k + 1] = "("
                \/ nw[k] = ")" /\ nw[k + 1] \in Digits
        \/ \E i \in 1..Len(c) : \E j \in (i + 2)..Len(c) :
                /\ c[i] \in Digits
                /\ c[j] \in Digits
                /\ \A k \in (i + 1)..(j - 1) : c[k] \in WhiteSpace

\* The three explanatory messages.
Explanations == {NoExpressionText, NonNumericText, MalformedText}

\* s starts with the text prefix.
StartsWith(s, prefix) ==
    Len(s) >= Len(prefix) /\ SubSeq(s, 1, Len(prefix)) = prefix

\* The result of calculateExpression for a text whose sanitized form is c:
\* the first message when c is blank or has no digit, the malformed message
\* exactly when c (with a digit) is no expression, the non-numeric message
\* only for a remainder by zero, and the value otherwise.
Explained(result, c) ==
    /\ result \in Explanations \/ StartsWith(result, <<"T","h","e"," ","e","x","p","r","e","s","s","i","o","n"," ">>)
    /\ result = NoExpressionText <=> (Trim(c) = << >> \/ SelectSeq(c, IsDigit) = << >>)
    /\ result = MalformedText <=> (SelectSeq(c, IsDigit) # << >> /\ Malformed(c))
    /\ result = NonNumericText => Contains(c, <<"%"," ","0">>)
    /\ ~Contains(result, <<"n","a","n">>)

\* The reply to a request of the intent math carries the result of the
\* evaluator between the three usual steps, with the suggestions of math.
MathReply(reply, c) ==
    /\ Explained(reply.content, c)
    /\ Len(reply.steps) = 3
    /\ reply.steps[1] = IntentStep("math")
    /\ reply.steps[2].title = "Tool"
    /\ reply.steps[3].title = "Next Move"
    /\ reply.suggestions = followUpSuggestions("math")

\* C13: calculateExpression returns an explanatory message when the
\* sanitized text is blank or has no digit, when the parser throws and when
\* the result is no finite number; a request of the intent math with such a
\* text is answered with status 200 by a reply whose content is that
\* message, with the three steps and the suggestions of math.
C13_ExplainsNeverThrows ==
    /\ mathResult # None =>
            Explained(mathResult, SelectSeq(mathText, IsExpressionChar))
    /\ httpResponse # NoResponse =>
            /\ httpResponse.status = 200
            /\ MathPattern(Trim(mathText)) =>
                    MathReply(httpResponse.body, SelectSeq(mathText, IsExpressionChar))

\* C13, witness: a text of the intent math that is no expression has been
\* evaluated and answered with the malformed message.
C13_Witness ==
    /\ mathText = <<"2","(","2">>
    /\ mathResult # None
    /\ mathResult = MalformedText
    /\ httpResponse # NoResponse
    /\ httpResponse.status = 200
    /\ httpResponse.body.content = MalformedText

(***************************************************************************)
(* The requests of the Chat component, under Spec.                         *)
(***************************************************************************)
\* The list carries the role and the content, and nothing else, of every
\* displayed message, in the order of the display.
CarriesDisplayed(items, shown) ==
    /\ Len(items) = Len(shown)
    /\ \A i \in 1..Len(shown) :
            /\ DOMAIN items[i] = {"role", "content"}
            /\ items[i].role = shown[i].role
            /\ items[i].content = shown[i].content

\* The request is answered with neither the 400 of the validation nor the
\* idle reply of runAgent.
AnsweredInEarnest(response) ==
    /\ response.status # 400
    /\ response.body # BadRequestBody
    /\ response.body # IdleReply

\* A request in flight holds the displayed messages, the last of which is
\* the user message just submitted.
UIRequest(req, shown) ==
    /\ NonEmptyArray(req)
    /\ CarriesDisplayed(req.messages.items, shown)
    /\ req.messages.items[Len(req.messages.items)].role = "user"
    /\ AnsweredInEarnest(POST(req))

\* The displayed messages alternate assistant, user, assistant, ... from
\* the greeting on.
Alternates(shown) ==
    /\ shown # << >>
    /\ shown[1] = Greeting
    /\ \A i \in 1..Len(shown) :
            shown[i].role = IF i % 2 = 1 THEN "assistant" ELSE "user"

\* C14: every request of the Chat component carries the role and content of
\* every message displayed before the submit, followed by the new user
\* message with the trimmed input; it is never empty, ends with a user
\* message and is answered with neither the 400 nor the idle reply; and the
\* displayed messages always alternate assistant, user, ... from the
\* greeting on.
C14_RequestCarriesDisplay ==
    /\ [](Alternates(messages))
    /\ [](\A k \in 1..Len(inflight) : UIRequest(inflight[k], messages))
    /\ [][(event'.type = "submit" /\ ~pending /\ Trim(input) # << >>) =>
            /\ Len(inflight') = Len(inflight) + 1
            /\ inflight'[Len(inflight')].messages.items =
                    [i \in 1..Len(messages) |->
                        [role |-> messages[i].role, content |-> messages[i].content]]
                    \o <<[role |-> "user", content |-> Trim(input)]>>]_vars

\* C14, witness: a request in flight carries the greeting, the first user
\* message, the apology injected for it and the second user message.
C14_Witness ==
    /\ Len(inflight) = 1
    /\ Len(inflight[1].messages.items) = 4
    /\ inflight[1].messages.items[1].content = Greeting.content
    /\ inflight[1].messages.items[3].content = Apology.content
    /\ inflight[1].messages.items[4] = Msg("user", <<"2","+","2">>)
    /\ event.type = "submit"

====
